---- MODULE Spec2Model ----
(***************************************************************************)
(* Blood Donation API server (src/server.js, the Firebase/Stripe-checkout  *)
(* variant that exports `app`, lines 339-731).                             *)
(*                                                                         *)
(* The three MongoDB collections, the Stripe ledger and the set of issued  *)
(* session tokens are the state.  Every Express handler is cut at its      *)
(* awaits: one action per code segment, taken at the instant the awaited   *)
(* store/provider operation takes effect, so that two requests interleave  *)
(* exactly where the event loop lets them.                                 *)
(*                                                                         *)
(* Documents are functions from field names to values ({...req.body} and   *)
(* $set are modelled on them field by field).  An _id is the position of   *)
(* the document in its collection.  Amounts are carried in thousandths of  *)
(* a currency unit so that Math.round(amount * 100) is a real conversion.  *)
(***************************************************************************)
EXTENDS Integers, Sequences, FiniteSets, TLC

VARIABLES
    users,        \* usersCollection: sequence of user documents
    requests,     \* donationRequestsCollection: sequence of documents
    funds,        \* fundsCollection: sequence of fund documents
    stripe,       \* the payment provider's checkout sessions and intents
    adminApps,    \* admin.apps.length after the best-effort initializeApp
    tokens,       \* claims of the session tokens signed so far
    h,            \* per connection: the handler instance in flight
    res,          \* per connection: the response sent to the last request
    stripeCalls,  \* number of retrieve calls made to the provider
    fundReq,      \* history: for each fund, the submission that inserted it
    lastAuth,     \* history: connection, credential and caller of the last request
    nreq          \* number of requests accepted so far

vars == <<users, requests, funds, stripe, adminApps, tokens, h, res,
          stripeCalls, fundReq, nreq, lastAuth>>

(* ------------------------------ bounds --------------------------------- *)

MaxReqs == 3

Procs == {1, 2}

(* ------------------------- JavaScript helpers -------------------------- *)

Has(o, f) == f \in DOMAIN o

\* { ...a, ...b }  and the effect of  $set: b  on document a
Spread(a, b) ==
    [f \in (DOMAIN a) \cup (DOMAIN b) |-> IF f \in DOMAIN b THEN b[f] ELSE a[f]]

\* delete o.f
Delete(o, f) == [g \in (DOMAIN o) \ {f} |-> o[g]]

Empty == [f \in {} |-> ""]

\* o.f where a missing field reads as undefined (stored by the driver as null)
Undefined == "null"

Get(o, f) == IF Has(o, f) THEN o[f] ELSE Undefined

\* a JavaScript number, in thousandths; NaN is what Number() gives for a
\* missing or non-numeric amount
Num(m) == [isNaN |-> FALSE, milli |-> m]

NaN == [isNaN |-> TRUE, milli |-> 0]

\* Number(req.body.amount)
NumberOf(body) == IF Has(body, "amount") THEN body.amount ELSE NaN

\* as RoundTimes100, the factor 100 forgotten
RoundTimes100_Unscaled(a) ==
    IF a.isNaN THEN NaN ELSE Num(((a.milli + 500) \div 1000) * 1000)

\* Math.round(Number(amount) * 100): nearest integer, halves towards +infinity
RoundTimes100(a) == IF a.isNaN THEN NaN ELSE Num(((a.milli + 5) \div 10) * 1000)

\* as StrictNotEqual, written as "paid less than claimed"
StrictNotEqual_Less(verified, n) == n.isNaN \/ n.milli > verified * 1000

\* verifiedAmount !== Math.round(...) for an integer verifiedAmount
StrictNotEqual(verified, n) == n.isNaN \/ n.milli # verified * 1000

(* ------------------------------ responses ------------------------------ *)

Reply(code, msg) == [code |-> code, msg |-> msg]

NoReply == Reply(0, "")

Idle == [pc |-> "idle"]

Respond(p, code, msg) ==
    /\ res' = [res EXCEPT ![p] = Reply(code, msg)]
    /\ h' = [h EXCEPT ![p] = Idle]

Continue(p, st) ==
    /\ res' = [res EXCEPT ![p] = NoReply]
    /\ h' = [h EXCEPT ![p] = st]

Accept(p) ==
    /\ h[p].pc = "idle"
    /\ nreq < MaxReqs
    /\ nreq' = nreq + 1

\* the request on connection p carries a credential of this kind: "none",
\* "bad" or "jwt" in the Authorization header, "open" on a route without verifyJWT
Presents(p, kind, email) == lastAuth' = [conn |-> p, kind |-> kind, email |-> email]

(* ------------------------------ the store ------------------------------ *)

Emails == {"adm", "vol", "don", "blk", "new"}

User(e, r, s) == [email |-> e, name |-> e, role |-> r, status |-> s]

SeedUsers ==
    << User("adm", "admin", "active"), User("vol", "volunteer", "active"),
       User("don", "donor", "active"), User("blk", "donor", "blocked") >>

\* collection.findOne({ field: value }): index of the first match, 0 if none
Matches(coll, f, v) == {i \in 1..Len(coll) : Has(coll[i], f) /\ coll[i][f] = v}

FindOne(coll, f, v) ==
    IF Matches(coll, f, v) = {} THEN 0
    ELSE CHOOSE i \in Matches(coll, f, v) : \A j \in Matches(coll, f, v) : i <= j

\* what deleteOne leaves at the position of a document: the _id is never reused
Gone == [gone |-> TRUE]

\* the collection holds a document with this _id
Exists(coll, id) == id \in 1..Len(coll) /\ ~Has(coll[id], "gone")

\* collection.updateOne({ _id }, { $set: upd })
UpdateOne(coll, id, upd) ==
    IF Exists(coll, id) THEN [coll EXCEPT ![id] = Spread(coll[id], upd)]
    ELSE coll

\* collection.deleteOne({ _id })
DeleteOne(coll, id) == IF Exists(coll, id) THEN [coll EXCEPT ![id] = Gone] ELSE coll

(* --------------------------- session tokens ---------------------------- *)

Claims(e, n) == [kind |-> "jwt", email |-> e, name |-> n]

NoAuth == [kind |-> "none", email |-> "", name |-> ""]

BadAuth == [kind |-> "bad", email |-> "", name |-> ""]

\* what a caller can put in the Authorization header
Auths == {NoAuth, BadAuth} \cup tokens

\* verifyJWT without the jwt.verify callback's error branch
verifyJWT_HeaderOnly(auth) ==
    IF auth.kind = "none" THEN Reply(401, "Unauthorized") ELSE NoReply

\* verifyJWT: 0 when the request goes on to the handler
verifyJWT(auth) ==
    IF auth.kind = "none" THEN Reply(401, "Unauthorized")
    ELSE IF auth.kind = "bad" THEN Reply(403, "Forbidden")
    ELSE NoReply

\* Firebase ID tokens a caller may present in the body of POST /jwt
IdTokens == {[valid |-> FALSE, email |-> ""]} \cup
            {[valid |-> TRUE, email |-> e] : e \in {"don", "new"}}

JwtBodies ==
    {Empty} \cup
    {[email |-> e] : e \in Emails} \cup
    {[token |-> t] : t \in IdTokens} \cup
    {[token |-> t, email |-> "adm"] : t \in IdTokens}

\* verifyFirebaseToken: the email put in req.firebaseUser, "" when it answers 401
verifyFirebaseToken(body) ==
    IF Has(body, "token") /\ adminApps > 0 /\ body.token.valid
    THEN body.token.email
    ELSE IF Has(body, "email") THEN body.email
    ELSE ""

\* POST /jwt: verifyFirebaseToken, then the user lookup is issued
JwtRecv(p, body) ==
    /\ Accept(p)
    /\ Presents(p, "open", "")
    /\ IF verifyFirebaseToken(body) = ""
       THEN Respond(p, 401, "Unauthorized: Valid Token required")
       ELSE Continue(p, [pc |-> "jwt_find", email |-> verifyFirebaseToken(body),
                         body |-> body])
    /\ UNCHANGED <<users, requests, funds, stripe, adminApps, tokens, stripeCalls, fundReq>>

\* POST /jwt: findOne answers, the token is signed and sent
JwtFind(p) ==
    /\ h[p].pc = "jwt_find"
    /\ LET u == FindOne(users, "email", h[p].email)
       IN  IF u = 0
           THEN /\ Respond(p, 401, "User not found in database")
                /\ UNCHANGED tokens
           ELSE /\ tokens' = tokens \cup {Claims(users[u].email, Get(users[u], "name"))}
                /\ Respond(p, 200, "token")
    /\ UNCHANGED <<users, requests, funds, stripe, adminApps, stripeCalls, fundReq, nreq, lastAuth>>

(* -------------------------------- users -------------------------------- *)

\* as requireRole, any registered caller let through
requireRole_AnyUser(decoded, roles) ==
    FindOne(users, "email", decoded.email) # 0

\* requireRole(...roles): TRUE when the middleware calls next()
requireRole(decoded, roles) ==
    LET u == FindOne(users, "email", decoded.email)
    IN  u # 0 /\ Get(users[u], "role") \in roles

AccessDenied == Reply(403, "Access denied")

UserBodies ==
    {[email |-> e, name |-> e] : e \in {"new", "don"}} \cup
    {[email |-> "new", name |-> "root", role |-> "admin", status |-> "blocked"]}

\* as UserDoc, req.body spread last
UserDoc_BodyLast(body) == Spread([role |-> "donor", status |-> "active"], body)

\* the user document built at line 478
UserDoc(body) == Spread(body, [role |-> "donor", status |-> "active"])

\* POST /users: the lookup by email is issued
UsersRecv(p, body) ==
    /\ Accept(p)
    /\ Presents(p, "open", "")
    /\ Continue(p, [pc |-> "users_find", body |-> body])
    /\ UNCHANGED <<users, requests, funds, stripe, adminApps, tokens, stripeCalls, fundReq>>

\* POST /users: findOne answers
UsersFind(p) ==
    /\ h[p].pc = "users_find"
    /\ IF FindOne(users, "email", Get(h[p].body, "email")) # 0
       THEN Respond(p, 200, "User already exists")
       ELSE Continue(p, [h[p] EXCEPT !.pc = "users_insert"])
    /\ UNCHANGED <<users, requests, funds, stripe, adminApps, tokens, stripeCalls,
                   fundReq, nreq, lastAuth>>

\* POST /users: insertOne takes effect
UsersInsert(p) ==
    /\ h[p].pc = "users_insert"
    /\ users' = Append(users, UserDoc(h[p].body))
    /\ Respond(p, 201, "created")
    /\ UNCHANGED <<requests, funds, stripe, adminApps, tokens, stripeCalls, fundReq, nreq, lastAuth>>

ListReply(n, total) == [code |-> 200, msg |-> "list", n |-> n, total |-> total]

\* req.query of the list endpoints; page and limit default to 1 and 10
DefaultPage == 1

DefaultLimit == 10

Queries == {Empty, [page |-> 2, limit |-> 2], [status |-> "blocked"]}

PageOf(query) == IF Has(query, "page") THEN query.page ELSE DefaultPage

LimitOf(query) == IF Has(query, "limit") THEN query.limit ELSE DefaultLimit

\* documents of coll selected by the optional status filter
Filtered(coll, query) ==
    {i \in 1..Len(coll) :
        Exists(coll, i) /\ (Has(query, "status") => Get(coll[i], "status") = query.status)}

Max(a, b) == IF a >= b THEN a ELSE b

Min(a, b) == IF a <= b THEN a ELSE b

\* size of find(query).skip(skip).limit(limit).toArray()
PageSize(n, page, limit) == Min(limit, Max(0, n - (page - 1) * limit))

\* GET /users: verifyJWT, then requireRole's lookup is issued
ListUsersRecv(p, auth, query) ==
    /\ Accept(p)
    /\ Presents(p, auth.kind, auth.email)
    /\ IF verifyJWT(auth) # NoReply
       THEN Respond(p, verifyJWT(auth).code, verifyJWT(auth).msg)
       ELSE Continue(p, [pc |-> "list_guard", decoded |-> auth, query |-> query, total |-> 0])
    /\ UNCHANGED <<users, requests, funds, stripe, adminApps, tokens, stripeCalls, fundReq>>

\* GET /users: requireRole("admin") decides
ListUsersGuard(p) ==
    /\ h[p].pc = "list_guard"
    /\ IF requireRole(h[p].decoded, {"admin"})
       THEN Continue(p, [h[p] EXCEPT !.pc = "list_count"])
       ELSE Respond(p, AccessDenied.code, AccessDenied.msg)
    /\ UNCHANGED <<users, requests, funds, stripe, adminApps, tokens, stripeCalls,
                   fundReq, nreq, lastAuth>>

\* GET /users: countDocuments answers
ListUsersCount(p) ==
    /\ h[p].pc = "list_count"
    /\ Continue(p, [h[p] EXCEPT !.pc = "list_find",
                                !.total = Cardinality(Filtered(users, h[p].query))])
    /\ UNCHANGED <<users, requests, funds, stripe, adminApps, tokens, stripeCalls,
                   fundReq, nreq, lastAuth>>

\* GET /users: find answers and { users, total } is sent
ListUsersFind(p) ==
    /\ h[p].pc = "list_find"
    /\ res' = [res EXCEPT ![p] =
                 ListReply(PageSize(Cardinality(Filtered(users, h[p].query)),
                                    PageOf(h[p].query), LimitOf(h[p].query)),
                           h[p].total)]
    /\ h' = [h EXCEPT ![p] = Idle]
    /\ UNCHANGED <<users, requests, funds, stripe, adminApps, tokens, stripeCalls,
                   fundReq, nreq, lastAuth>>

ProfileBodies ==
    {[name |-> "x"], [role |-> "admin"], [status |-> "active"],
     [email |-> "adm", name |-> "x"]}

\* PUT /users/profile: verifyJWT, updateData is built, updateOne is issued
ProfileRecv(p, auth, body) ==
    /\ Accept(p)
    /\ Presents(p, auth.kind, auth.email)
    /\ IF verifyJWT(auth) # NoReply
       THEN Respond(p, verifyJWT(auth).code, verifyJWT(auth).msg)
       ELSE Continue(p, [pc |-> "profile_update", decoded |-> auth,
                         updateData |-> Delete(Delete(body, "email"), "_id")])
    /\ UNCHANGED <<users, requests, funds, stripe, adminApps, tokens, stripeCalls, fundReq>>

\* PUT /users/profile: updateOne({ email }, { $set: updateData }) takes effect
ProfileUpdate(p) ==
    /\ h[p].pc = "profile_update"
    /\ users' = UpdateOne(users, FindOne(users, "email", h[p].decoded.email),
                          h[p].updateData)
    /\ Respond(p, 200, "updated")
    /\ UNCHANGED <<requests, funds, stripe, adminApps, tokens, stripeCalls, fundReq, nreq, lastAuth>>

Roles == {"donor", "volunteer", "admin"}

Statuses == {"active", "blocked"}

\* :id values a caller sends: the seeded admin, donor and blocked user, and
\* an id no document has
UserIds == {1, 3, 4, 99}

\* PATCH /users/role/:id: verifyJWT, then requireRole's lookup is issued
RoleRecv(p, auth, id, body) ==
    /\ Accept(p)
    /\ Presents(p, auth.kind, auth.email)
    /\ IF verifyJWT(auth) # NoReply
       THEN Respond(p, verifyJWT(auth).code, verifyJWT(auth).msg)
       ELSE Continue(p, [pc |-> "role_guard", decoded |-> auth, id |-> id, body |-> body])
    /\ UNCHANGED <<users, requests, funds, stripe, adminApps, tokens, stripeCalls, fundReq>>

\* PATCH /users/role/:id: requireRole("admin") decides
RoleGuard(p) ==
    /\ h[p].pc = "role_guard"
    /\ IF requireRole(h[p].decoded, {"admin"})
       THEN Continue(p, [h[p] EXCEPT !.pc = "role_update"])
       ELSE Respond(p, AccessDenied.code, AccessDenied.msg)
    /\ UNCHANGED <<users, requests, funds, stripe, adminApps, tokens, stripeCalls,
                   fundReq, nreq, lastAuth>>

\* PATCH /users/role/:id: updateOne({ _id }, { $set: { role } }) takes effect
RoleUpdate(p) ==
    /\ h[p].pc = "role_update"
    /\ users' = UpdateOne(users, h[p].id, [role |-> Get(h[p].body, "role")])
    /\ Respond(p, 200, "updated")
    /\ UNCHANGED <<requests, funds, stripe, adminApps, tokens, stripeCalls, fundReq, nreq, lastAuth>>

\* PATCH /users/status/:id: verifyJWT, then requireRole's lookup is issued
StatusRecv(p, auth, id, body) ==
    /\ Accept(p)
    /\ Presents(p, auth.kind, auth.email)
    /\ IF verifyJWT(auth) # NoReply
       THEN Respond(p, verifyJWT(auth).code, verifyJWT(auth).msg)
       ELSE Continue(p, [pc |-> "status_guard", decoded |-> auth, id |-> id, body |-> body])
    /\ UNCHANGED <<users, requests, funds, stripe, adminApps, tokens, stripeCalls, fundReq>>

\* PATCH /users/status/:id: requireRole("admin") decides
StatusGuard(p) ==
    /\ h[p].pc = "status_guard"
    /\ IF requireRole(h[p].decoded, {"admin"})
       THEN Continue(p, [h[p] EXCEPT !.pc = "status_update"])
       ELSE Respond(p, AccessDenied.code, AccessDenied.msg)
    /\ UNCHANGED <<users, requests, funds, stripe, adminApps, tokens, stripeCalls,
                   fundReq, nreq, lastAuth>>

\* PATCH /users/status/:id: updateOne({ _id }, { $set: { status } }) takes effect
StatusUpdate(p) ==
    /\ h[p].pc = "status_update"
    /\ users' = UpdateOne(users, h[p].id, [status |-> Get(h[p].body, "status")])
    /\ Respond(p, 200, "updated")
    /\ UNCHANGED <<requests, funds, stripe, adminApps, tokens, stripeCalls, fundReq, nreq, lastAuth>>

(* -------------------------- donation requests -------------------------- *)

SeedRequests ==
    << [requesterEmail |-> "don", status |-> "pending", bloodGroup |-> "A+"] >>

RequestBodies ==
    {[bloodGroup |-> "O-"],
     [bloodGroup |-> "O-", status |-> "done", requesterEmail |-> "adm",
      donorEmail |-> "adm"]}

\* as RequestDoc, req.body spread last
RequestDoc_BodyLast(body, decoded) ==
    Spread([requesterEmail |-> decoded.email, status |-> "pending"], body)

\* the request document built at line 515
RequestDoc(body, decoded) ==
    Spread(body, [requesterEmail |-> decoded.email, status |-> "pending"])

\* POST /donation-requests: verifyJWT, the lookup of the caller is issued
CreateRecv(p, auth, body) ==
    /\ Accept(p)
    /\ Presents(p, auth.kind, auth.email)
    /\ IF verifyJWT(auth) # NoReply
       THEN Respond(p, verifyJWT(auth).code, verifyJWT(auth).msg)
       ELSE Continue(p, [pc |-> "create_user", decoded |-> auth, body |-> body])
    /\ UNCHANGED <<users, requests, funds, stripe, adminApps, tokens, stripeCalls, fundReq>>

\* as CreateUser, the status of the caller not looked at
CreateUser_Unchecked(p) ==
    /\ h[p].pc = "create_user"
    /\ Continue(p, [h[p] EXCEPT !.pc = "create_insert"])
    /\ UNCHANGED <<users, requests, funds, stripe, adminApps, tokens, stripeCalls,
                   fundReq, nreq, lastAuth>>

\* POST /donation-requests: findOne answers; user.status of no user throws
\* in the async handler and the request is never answered
CreateUser(p) ==
    /\ h[p].pc = "create_user"
    /\ LET u == FindOne(users, "email", h[p].decoded.email)
       IN  IF u = 0
           THEN Continue(p, [pc |-> "unanswered"])
           ELSE IF Get(users[u], "status") = "blocked"
           THEN Respond(p, 403, "User blocked")
           ELSE Continue(p, [h[p] EXCEPT !.pc = "create_insert"])
    /\ UNCHANGED <<users, requests, funds, stripe, adminApps, tokens, stripeCalls,
                   fundReq, nreq, lastAuth>>

\* POST /donation-requests: insertOne takes effect
CreateInsert(p) ==
    /\ h[p].pc = "create_insert"
    /\ requests' = Append(requests, RequestDoc(h[p].body, h[p].decoded))
    /\ Respond(p, 200, "inserted")
    /\ UNCHANGED <<users, funds, stripe, adminApps, tokens, stripeCalls, fundReq, nreq, lastAuth>>

\* :id values a caller sends: the seeded request and an id no document has
RequestIds == {1, 99}

UpdateBodies ==
    {[bloodGroup |-> "B+"], [status |-> "done"],
     [donorEmail |-> "adm", donorName |-> "adm"], [requesterEmail |-> "blk"]}

\* PUT /donation-requests/:id: verifyJWT, updateData is built, updateOne is issued
UpdateRecv(p, auth, id, body) ==
    /\ Accept(p)
    /\ Presents(p, auth.kind, auth.email)
    /\ IF verifyJWT(auth) # NoReply
       THEN Respond(p, verifyJWT(auth).code, verifyJWT(auth).msg)
       ELSE Continue(p, [pc |-> "update_set", decoded |-> auth, id |-> id,
                         updateData |-> Delete(body, "_id")])
    /\ UNCHANGED <<users, requests, funds, stripe, adminApps, tokens, stripeCalls, fundReq>>

\* PUT /donation-requests/:id: updateOne({ _id }, { $set: updateData }) takes effect
UpdateSet(p) ==
    /\ h[p].pc = "update_set"
    /\ requests' = UpdateOne(requests, h[p].id, h[p].updateData)
    /\ Respond(p, 200, "updated")
    /\ UNCHANGED <<users, funds, stripe, adminApps, tokens, stripeCalls, fundReq, nreq, lastAuth>>

\* what GET /donation-requests sends: the page alone
PageReply(n) == [code |-> 200, msg |-> "list", n |-> n]

\* req.query of the request lists
RequestQueries == {Empty, [page |-> 2, limit |-> 1], [status |-> "pending"]}

\* GET /donation-requests: verifyJWT, then requireRole's lookup is issued
ListRequestsRecv(p, auth, query) ==
    /\ Accept(p)
    /\ Presents(p, auth.kind, auth.email)
    /\ IF verifyJWT(auth) # NoReply
       THEN Respond(p, verifyJWT(auth).code, verifyJWT(auth).msg)
       ELSE Continue(p, [pc |-> "rlist_guard", decoded |-> auth, query |-> query])
    /\ UNCHANGED <<users, requests, funds, stripe, adminApps, tokens, stripeCalls, fundReq>>

\* as ListRequestsGuard, deciding on the role the caller had when the token
\* was signed
ListRequestsGuard_AtIssue(p) ==
    /\ h[p].pc = "rlist_guard"
    /\ IF \E i \in 1..Len(SeedUsers) :
             /\ SeedUsers[i].email = h[p].decoded.email
             /\ SeedUsers[i].role \in {"admin", "volunteer"}
       THEN Continue(p, [h[p] EXCEPT !.pc = "rlist_find"])
       ELSE Respond(p, AccessDenied.code, AccessDenied.msg)
    /\ UNCHANGED <<users, requests, funds, stripe, adminApps, tokens, stripeCalls,
                   fundReq, nreq, lastAuth>>

\* GET /donation-requests: requireRole("admin", "volunteer") decides
ListRequestsGuard(p) ==
    /\ h[p].pc = "rlist_guard"
    /\ IF requireRole(h[p].decoded, {"admin", "volunteer"})
       THEN Continue(p, [h[p] EXCEPT !.pc = "rlist_find"])
       ELSE Respond(p, AccessDenied.code, AccessDenied.msg)
    /\ UNCHANGED <<users, requests, funds, stripe, adminApps, tokens, stripeCalls,
                   fundReq, nreq, lastAuth>>

\* GET /donation-requests: find answers and the array is sent
ListRequestsFind(p) ==
    /\ h[p].pc = "rlist_find"
    /\ res' = [res EXCEPT ![p] =
                 PageReply(PageSize(Cardinality(Filtered(requests, h[p].query)),
                                    PageOf(h[p].query), LimitOf(h[p].query)))]
    /\ h' = [h EXCEPT ![p] = Idle]
    /\ UNCHANGED <<users, requests, funds, stripe, adminApps, tokens, stripeCalls,
                   fundReq, nreq, lastAuth>>

\* documents selected by the query of GET /donation-requests/my
FilteredMy(coll, query, decoded) ==
    {i \in Filtered(coll, query) : Get(coll[i], "requesterEmail") = decoded.email}

\* GET /donation-requests/my: verifyJWT, countDocuments is issued
ListMyRecv(p, auth, query) ==
    /\ Accept(p)
    /\ Presents(p, auth.kind, auth.email)
    /\ IF verifyJWT(auth) # NoReply
       THEN Respond(p, verifyJWT(auth).code, verifyJWT(auth).msg)
       ELSE Continue(p, [pc |-> "my_count", decoded |-> auth, query |-> query, total |-> 0])
    /\ UNCHANGED <<users, requests, funds, stripe, adminApps, tokens, stripeCalls, fundReq>>

\* GET /donation-requests/my: countDocuments answers
ListMyCount(p) ==
    /\ h[p].pc = "my_count"
    /\ Continue(p, [h[p] EXCEPT !.pc = "my_find",
                                !.total = Cardinality(FilteredMy(requests, h[p].query,
                                                                 h[p].decoded))])
    /\ UNCHANGED <<users, requests, funds, stripe, adminApps, tokens, stripeCalls,
                   fundReq, nreq, lastAuth>>

\* GET /donation-requests/my: find answers and { requests, total } is sent
ListMyFind(p) ==
    /\ h[p].pc = "my_find"
    /\ res' = [res EXCEPT ![p] =
                 ListReply(PageSize(Cardinality(FilteredMy(requests, h[p].query,
                                                           h[p].decoded)),
                                    PageOf(h[p].query), LimitOf(h[p].query)),
                           h[p].total)]
    /\ h' = [h EXCEPT ![p] = Idle]
    /\ UNCHANGED <<users, requests, funds, stripe, adminApps, tokens, stripeCalls,
                   fundReq, nreq, lastAuth>>

\* the result document updateOne sends back
UpdateResult(msg, coll, id, upd) ==
    [code |-> 200, msg |-> msg,
     matchedCount |-> IF Exists(coll, id) THEN 1 ELSE 0,
     modifiedCount |-> IF Exists(coll, id) /\ Spread(coll[id], upd) # coll[id] THEN 1 ELSE 0]

\* the $set document of the donate action
DonateSet(decoded) ==
    [status |-> "inprogress", donorName |-> decoded.name, donorEmail |-> decoded.email]

\* PATCH /donation-requests/donate/:id: verifyJWT, updateOne is issued
DonateRecv(p, auth, id) ==
    /\ Accept(p)
    /\ Presents(p, auth.kind, auth.email)
    /\ IF verifyJWT(auth) # NoReply
       THEN Respond(p, verifyJWT(auth).code, verifyJWT(auth).msg)
       ELSE Continue(p, [pc |-> "donate_set", decoded |-> auth, id |-> id])
    /\ UNCHANGED <<users, requests, funds, stripe, adminApps, tokens, stripeCalls, fundReq>>

\* as DonateApply, the filter of updateOne asking for a pending request
DonateApply_IfPending(p) ==
    /\ h[p].pc = "donate_set"
    /\ requests' = IF Exists(requests, h[p].id) /\ requests[h[p].id].status = "pending"
                   THEN UpdateOne(requests, h[p].id, DonateSet(h[p].decoded))
                   ELSE requests
    /\ res' = [res EXCEPT ![p] = UpdateResult("donated", requests, h[p].id, DonateSet(h[p].decoded))]
    /\ h' = [h EXCEPT ![p] = Idle]
    /\ UNCHANGED <<users, funds, stripe, adminApps, tokens, stripeCalls, fundReq, nreq, lastAuth>>

\* PATCH /donation-requests/donate/:id: updateOne({ _id }, { $set }) takes effect
DonateApply(p) ==
    /\ h[p].pc = "donate_set"
    /\ requests' = UpdateOne(requests, h[p].id, DonateSet(h[p].decoded))
    /\ res' = [res EXCEPT ![p] = UpdateResult("donated", requests, h[p].id, DonateSet(h[p].decoded))]
    /\ h' = [h EXCEPT ![p] = Idle]
    /\ UNCHANGED <<users, funds, stripe, adminApps, tokens, stripeCalls, fundReq, nreq, lastAuth>>

\* req.body of PATCH /donation-requests/status/:id
ReqStatusBodies == {[status |-> "done"], [status |-> "archived"]}

\* the $set document of the status change
StatusSet(status) == [status |-> status]

\* PATCH /donation-requests/status/:id: verifyJWT, the request lookup is issued
ReqStatusRecv(p, auth, id, body) ==
    /\ Accept(p)
    /\ Presents(p, auth.kind, auth.email)
    /\ IF verifyJWT(auth) # NoReply
       THEN Respond(p, verifyJWT(auth).code, verifyJWT(auth).msg)
       ELSE Continue(p, [pc |-> "rstatus_find", decoded |-> auth, id |-> id,
                         status |-> Get(body, "status")])
    /\ UNCHANGED <<users, requests, funds, stripe, adminApps, tokens, stripeCalls, fundReq>>

\* PATCH /donation-requests/status/:id: findOne(query) answers, the lookup of
\* the caller is issued
ReqStatusFind(p) ==
    /\ h[p].pc = "rstatus_find"
    /\ IF ~Exists(requests, h[p].id)
       THEN Respond(p, 404, "Not found")
       ELSE Continue(p, [pc |-> "rstatus_user", decoded |-> h[p].decoded, id |-> h[p].id,
                         status |-> h[p].status, request |-> requests[h[p].id]])
    /\ UNCHANGED <<users, requests, funds, stripe, adminApps, tokens, stripeCalls,
                   fundReq, nreq, lastAuth>>

\* as StatusAllowed, without the requester
StatusAllowed_StaffOnly(user, request, decoded) ==
    Get(user, "role") = "admin" \/ Get(user, "role") = "volunteer"

\* the condition of lines 587-591
StatusAllowed(user, request, decoded) ==
    \/ Get(user, "role") = "admin"
    \/ Get(user, "role") = "volunteer"
    \/ Get(request, "requesterEmail") = decoded.email

\* PATCH /donation-requests/status/:id: the caller's document answers; user.role
\* of no user throws into the catch; updateOne is issued or 403 sent
ReqStatusUser(p) ==
    /\ h[p].pc = "rstatus_user"
    /\ LET u == FindOne(users, "email", h[p].decoded.email)
       IN  IF u = 0
           THEN Respond(p, 500, "Server error")
           ELSE IF StatusAllowed(users[u], h[p].request, h[p].decoded)
           THEN Continue(p, [pc |-> "rstatus_set", decoded |-> h[p].decoded,
                             id |-> h[p].id, status |-> h[p].status])
           ELSE Respond(p, 403, "Forbidden")
    /\ UNCHANGED <<users, requests, funds, stripe, adminApps, tokens, stripeCalls,
                   fundReq, nreq, lastAuth>>

\* PATCH /donation-requests/status/:id: updateOne(query, { $set: { status } })
\* takes effect
ReqStatusApply(p) ==
    /\ h[p].pc = "rstatus_set"
    /\ requests' = UpdateOne(requests, h[p].id, StatusSet(h[p].status))
    /\ res' = [res EXCEPT ![p] = UpdateResult("status", requests, h[p].id, StatusSet(h[p].status))]
    /\ h' = [h EXCEPT ![p] = Idle]
    /\ UNCHANGED <<users, funds, stripe, adminApps, tokens, stripeCalls, fundReq, nreq, lastAuth>>

\* DELETE /donation-requests/:id: verifyJWT, deleteOne is issued
DeleteRecv(p, auth, id) ==
    /\ Accept(p)
    /\ Presents(p, auth.kind, auth.email)
    /\ IF verifyJWT(auth) # NoReply
       THEN Respond(p, verifyJWT(auth).code, verifyJWT(auth).msg)
       ELSE Continue(p, [pc |-> "delete_one", decoded |-> auth, id |-> id])
    /\ UNCHANGED <<users, requests, funds, stripe, adminApps, tokens, stripeCalls, fundReq>>

\* DELETE /donation-requests/:id: deleteOne({ _id }) takes effect
DeleteApply(p) ==
    /\ h[p].pc = "delete_one"
    /\ requests' = DeleteOne(requests, h[p].id)
    /\ Respond(p, 200, "deleted")
    /\ UNCHANGED <<users, funds, stripe, adminApps, tokens, stripeCalls, fundReq, nreq, lastAuth>>

(* ------------------------------- funding ------------------------------- *)

Tx(prefix, n) == <<prefix, n>>

\* transactionId.startsWith('cs_')
startsWithCs(tx) == tx[1] = "cs_"

TxIds == {Tx("cs_", 1), Tx("pi_", 2), Tx("pi_", 9)}

Amounts == {NaN, Num(500000), Num(499996), Num(500006), Num(20000)}

FundBodies ==
    {[amount |-> Num(500000)]} \cup
    {[transactionId |-> t, amount |-> a] : t \in TxIds, a \in Amounts} \cup
    {[transactionId |-> Tx("cs_", 1), amount |-> Num(500000), email |-> e] :
        e \in {"adm", "don"}}

StripeInit ==
    [sessions |-> (Tx("cs_", 1) :> [payment_status |-> "paid", amount_total |-> 50000]),
     intents  |-> (Tx("pi_", 2) :> [status |-> "requires_payment_method", amount |-> 2000])]

\* POST /funds: verifyJWT, the transactionId check, findOne is issued
FundsRecv(p, auth, body) ==
    /\ Accept(p)
    /\ Presents(p, auth.kind, auth.email)
    /\ IF verifyJWT(auth) # NoReply
       THEN Respond(p, verifyJWT(auth).code, verifyJWT(auth).msg)
       ELSE IF ~Has(body, "transactionId")
       THEN Respond(p, 400, "Transaction ID required")
       ELSE Continue(p, [pc |-> "funds_find", decoded |-> auth, body |-> body])
    /\ UNCHANGED <<users, requests, funds, stripe, adminApps, tokens, stripeCalls, fundReq>>

\* as FundsFind, the idempotency check left out
FundsFind_Unchecked(p) ==
    /\ h[p].pc = "funds_find"
    /\ Continue(p, [h[p] EXCEPT !.pc = "funds_verify"])
    /\ UNCHANGED <<users, requests, funds, stripe, adminApps, tokens, stripeCalls,
                   fundReq, nreq, lastAuth>>

\* POST /funds: findOne answers the idempotency check
FundsFind(p) ==
    /\ h[p].pc = "funds_find"
    /\ IF FindOne(funds, "transactionId", h[p].body.transactionId) # 0
       THEN Respond(p, 409, "Transaction already recorded")
       ELSE Continue(p, [h[p] EXCEPT !.pc = "funds_verify"])
    /\ UNCHANGED <<users, requests, funds, stripe, adminApps, tokens, stripeCalls,
                   fundReq, nreq, lastAuth>>

\* POST /funds: the provider answers the retrieve call
FundsVerify(p) ==
    /\ h[p].pc = "funds_verify"
    /\ stripeCalls' = stripeCalls + 1
    /\ LET tx == h[p].body.transactionId
           known == IF startsWithCs(tx) THEN tx \in DOMAIN stripe.sessions
                    ELSE tx \in DOMAIN stripe.intents
           isPaid == IF startsWithCs(tx) THEN stripe.sessions[tx].payment_status = "paid"
                     ELSE stripe.intents[tx].status = "succeeded"
           verifiedAmount == IF startsWithCs(tx) THEN stripe.sessions[tx].amount_total
                             ELSE stripe.intents[tx].amount
       IN  IF ~known
           THEN Respond(p, 500, "Failed to verify transaction with bank")
           ELSE IF ~isPaid
           THEN Respond(p, 400, "Payment verification failed: Not matched/paid")
           ELSE IF StrictNotEqual(verifiedAmount, RoundTimes100(NumberOf(h[p].body)))
           THEN Respond(p, 400, "Payment verification failed: Amount mismatch")
           ELSE Continue(p, [h[p] EXCEPT !.pc = "funds_insert"])
    /\ UNCHANGED <<users, requests, funds, stripe, adminApps, tokens, fundReq, nreq, lastAuth>>

\* as FundDoc, req.body spread last
FundDoc_BodyLast(body, decoded) ==
    Spread([email |-> decoded.email, amount |-> NumberOf(body)], body)

\* the fund document built at line 697
FundDoc(body, decoded) ==
    Spread(body, [email |-> decoded.email, amount |-> NumberOf(body)])

\* POST /funds: insertOne takes effect and the result is sent
FundsInsert(p) ==
    /\ h[p].pc = "funds_insert"
    /\ funds' = Append(funds, FundDoc(h[p].body, h[p].decoded))
    /\ fundReq' = Append(fundReq, [decoded |-> h[p].decoded, body |-> h[p].body])
    /\ Respond(p, 200, "inserted")
    /\ UNCHANGED <<users, requests, stripe, adminApps, tokens, stripeCalls, nreq, lastAuth>>

\* the customer completes the payment at the provider
PaymentSucceeds(tx) ==
    /\ tx \in DOMAIN stripe.intents
    /\ stripe.intents[tx].status # "succeeded"
    /\ stripe' = [stripe EXCEPT !.intents[tx].status = "succeeded"]
    /\ UNCHANGED <<users, requests, funds, adminApps, tokens, h, res, stripeCalls,
                   fundReq, nreq, lastAuth>>

(* ---------------------------- specifications --------------------------- *)

Init ==
    /\ users = SeedUsers
    /\ requests = SeedRequests
    /\ funds = <<>>
    /\ stripe = StripeInit
    /\ adminApps \in {0, 1}
    /\ tokens = {}
    /\ h = [p \in Procs |-> Idle]
    /\ res = [p \in Procs |-> NoReply]
    /\ stripeCalls = 0
    /\ fundReq = <<>>
    /\ nreq = 0
    /\ lastAuth = [conn |-> 0, kind |-> "open", email |-> ""]

\* the identities that log in while funds are submitted
FundsJwtBodies == {b \in JwtBodies : Has(b, "email") => b.email \in {"adm", "don"}}

NextFunds ==
    \/ \E p \in Procs, body \in FundsJwtBodies : JwtRecv(p, body)
    \/ \E p \in Procs : JwtFind(p)
    \/ \E p \in Procs, auth \in Auths, body \in FundBodies : FundsRecv(p, auth, body)
    \/ \E p \in Procs : FundsFind(p)
    \/ \E p \in Procs : FundsVerify(p)
    \/ \E p \in Procs : FundsInsert(p)
    \/ \E tx \in TxIds : PaymentSucceeds(tx)

SpecFunds == Init /\ [][NextFunds]_vars

NextUsers ==
    \/ \E p \in Procs, body \in JwtBodies : JwtRecv(p, body)
    \/ \E p \in Procs : JwtFind(p)
    \/ \E p \in Procs, body \in UserBodies : UsersRecv(p, body)
    \/ \E p \in Procs : UsersFind(p)
    \/ \E p \in Procs : UsersInsert(p)
    \/ \E p \in Procs, auth \in Auths, query \in Queries : ListUsersRecv(p, auth, query)
    \/ \E p \in Procs : ListUsersGuard(p)
    \/ \E p \in Procs : ListUsersCount(p)
    \/ \E p \in Procs : ListUsersFind(p)
    \/ \E p \in Procs, auth \in Auths, body \in ProfileBodies : ProfileRecv(p, auth, body)
    \/ \E p \in Procs : ProfileUpdate(p)
    \/ \E p \in Procs, auth \in Auths, id \in UserIds, r \in Roles :
          RoleRecv(p, auth, id, [role |-> r])
    \/ \E p \in Procs : RoleGuard(p)
    \/ \E p \in Procs : RoleUpdate(p)
    \/ \E p \in Procs, auth \in Auths, id \in UserIds, st \in Statuses :
          StatusRecv(p, auth, id, [status |-> st])
    \/ \E p \in Procs : StatusGuard(p)
    \/ \E p \in Procs : StatusUpdate(p)

SpecUsers == Init /\ [][NextUsers]_vars

NextRequests ==
    \/ \E p \in Procs, body \in JwtBodies : JwtRecv(p, body)
    \/ \E p \in Procs : JwtFind(p)
    \/ \E p \in Procs, auth \in Auths, id \in UserIds, st \in Statuses :
          StatusRecv(p, auth, id, [status |-> st])
    \/ \E p \in Procs : StatusGuard(p)
    \/ \E p \in Procs : StatusUpdate(p)
    \/ \E p \in Procs, auth \in Auths, body \in RequestBodies : CreateRecv(p, auth, body)
    \/ \E p \in Procs : CreateUser(p)
    \/ \E p \in Procs : CreateInsert(p)
    \/ \E p \in Procs, auth \in Auths, id \in RequestIds, body \in UpdateBodies :
          UpdateRecv(p, auth, id, body)
    \/ \E p \in Procs : UpdateSet(p)
    \/ \E p \in Procs, auth \in Auths, id \in RequestIds : DeleteRecv(p, auth, id)
    \/ \E p \in Procs : DeleteApply(p)

SpecRequests == Init /\ [][NextRequests]_vars

\* session tokens are valid for seven days whatever process signed them: the
\* server may start while the seeded users hold theirs
InitLoggedIn ==
    /\ users = SeedUsers
    /\ requests = SeedRequests
    /\ funds = <<>>
    /\ stripe = StripeInit
    /\ adminApps = 1
    /\ tokens = {Claims(e, e) : e \in {"adm", "vol", "don"}}
    /\ h = [p \in Procs |-> Idle]
    /\ res = [p \in Procs |-> NoReply]
    /\ stripeCalls = 0
    /\ fundReq = <<>>
    /\ nreq = 0
    /\ lastAuth = [conn |-> 0, kind |-> "open", email |-> ""]

\* :id values of the lifecycle: the seeded request and the next one created
LifecycleIds == {1, 2}

NextLifecycle ==
    \/ \E p \in Procs, auth \in tokens, body \in RequestBodies : CreateRecv(p, auth, body)
    \/ \E p \in Procs : CreateUser(p)
    \/ \E p \in Procs : CreateInsert(p)
    \/ \E p \in Procs, auth \in tokens, id \in LifecycleIds : DonateRecv(p, auth, id)
    \/ \E p \in Procs : DonateApply(p)
    \/ \E p \in Procs, auth \in tokens, id \in LifecycleIds, body \in ReqStatusBodies :
          ReqStatusRecv(p, auth, id, body)
    \/ \E p \in Procs : ReqStatusFind(p)
    \/ \E p \in Procs : ReqStatusUser(p)
    \/ \E p \in Procs : ReqStatusApply(p)

SpecLifecycle == InitLoggedIn /\ [][NextLifecycle]_vars

NextLists ==
    \/ \E p \in Procs, auth \in tokens, body \in RequestBodies : CreateRecv(p, auth, body)
    \/ \E p \in Procs : CreateUser(p)
    \/ \E p \in Procs : CreateInsert(p)
    \/ \E p \in Procs, auth \in tokens, query \in Queries : ListUsersRecv(p, auth, query)
    \/ \E p \in Procs : ListUsersGuard(p)
    \/ \E p \in Procs : ListUsersCount(p)
    \/ \E p \in Procs : ListUsersFind(p)
    \/ \E p \in Procs, auth \in tokens, query \in RequestQueries :
          ListRequestsRecv(p, auth, query)
    \/ \E p \in Procs : ListRequestsGuard(p)
    \/ \E p \in Procs : ListRequestsFind(p)
    \/ \E p \in Procs, auth \in tokens, query \in RequestQueries : ListMyRecv(p, auth, query)
    \/ \E p \in Procs : ListMyCount(p)
    \/ \E p \in Procs : ListMyFind(p)

SpecLists == InitLoggedIn /\ [][NextLists]_vars

\* :id values of the role changes: the seeded admin and donor
RoleIds == {1, 3}

NextRoles ==
    \/ \E p \in Procs, auth \in tokens, id \in RoleIds, r \in Roles :
          RoleRecv(p, auth, id, [role |-> r])
    \/ \E p \in Procs : RoleGuard(p)
    \/ \E p \in Procs : RoleUpdate(p)
    \/ \E p \in Procs, auth \in tokens : ListUsersRecv(p, auth, Empty)
    \/ \E p \in Procs : ListUsersGuard(p)
    \/ \E p \in Procs : ListUsersCount(p)
    \/ \E p \in Procs : ListUsersFind(p)
    \/ \E p \in Procs, auth \in tokens : ListRequestsRecv(p, auth, Empty)
    \/ \E p \in Procs : ListRequestsGuard(p)
    \/ \E p \in Procs : ListRequestsFind(p)

SpecRoles == InitLoggedIn /\ [][NextRoles]_vars

TypeOK == nreq \in 0..MaxReqs

(* ------------------- payment reconciliation: claims -------------------- *)

\* the provider's ledger, read independently of the handler
ProviderPaid(tx) ==
    IF tx[1] = "cs_"
    THEN tx \in DOMAIN stripe.sessions /\ stripe.sessions[tx].payment_status = "paid"
    ELSE tx \in DOMAIN stripe.intents /\ stripe.intents[tx].status = "succeeded"

ProviderAmount(tx) ==
    IF tx[1] = "cs_" THEN stripe.sessions[tx].amount_total ELSE stripe.intents[tx].amount

\* v minor units is the amount a (thousandths) taken to the nearest hundredth
IsMinorUnitsOf(v, a) == ~a.isNaN /\ 10 * v - 5 <= a.milli /\ a.milli < 10 * v + 5

Stored(tx) == \E i \in 1..Len(funds) : funds[i].transactionId = tx

\* connection p leaves the handler position pc in this step
Leaves(p, pc) == h[p].pc = pc /\ h'[p].pc # pc

AlreadyRecorded == Reply(409, "Transaction already recorded")

\* C1: an authenticated POST /funds whose transactionId is already stored
\* inserts nothing, is answered 409 whatever the amount, and ends without a
\* call to the payment provider.
C1_DuplicateRejected ==
    [][\A p \in Procs :
          (Leaves(p, "funds_find") /\ Stored(h[p].body.transactionId))
          => /\ funds' = funds
             /\ res'[p] = AlreadyRecorded
             /\ h'[p].pc = "idle"
             /\ stripeCalls' = stripeCalls]_vars

C1_Witness ==
    \E p \in Procs : res[p] = AlreadyRecorded /\ Len(funds) = 1 /\ stripeCalls = 1

\* C2: the fund store never holds two records with the same transactionId.
C2_UniqueTransactionId ==
    \A i, j \in 1..Len(funds) :
        funds[i].transactionId = funds[j].transactionId => i = j

C3_Stored ==
    \A i \in 1..Len(funds) :
        /\ ProviderPaid(funds[i].transactionId)
        /\ IsMinorUnitsOf(ProviderAmount(funds[i].transactionId), funds[i].amount)

C3_Step ==
    /\ \A p \in Procs :
          (/\ Leaves(p, "funds_verify")
           /\ \/ ~ProviderPaid(h[p].body.transactionId)
              \/ ~IsMinorUnitsOf(ProviderAmount(h[p].body.transactionId),
                                 NumberOf(h[p].body)))
          => h'[p].pc = "idle" /\ res'[p].code \in {400, 500} /\ funds' = funds
    /\ funds' # funds => \E p \in Procs : h[p].pc = "funds_insert"

\* C3: every stored fund carries a transactionId the provider reports as
\* paid and an amount whose minor-unit conversion is the provider's amount;
\* a submission that is unpaid or differs in amount is answered with an
\* error and creates no record.
C3_VerifiedOnly == []C3_Stored /\ [][C3_Step]_vars

C3_Witness ==
    /\ \E i \in 1..Len(funds) : funds[i].amount = Num(499996)
    /\ \E p \in Procs : res[p] = Reply(400, "Payment verification failed: Amount mismatch")

\* the provider reports tx paid with exactly 100 times the claimed amount
ExactlyPaid(body) ==
    /\ ProviderPaid(body.transactionId)
    /\ ~NumberOf(body).isNaN
    /\ NumberOf(body).milli = 10 * ProviderAmount(body.transactionId)

\* C4: a submission of a transactionId not yet stored, paid with exactly 100
\* times the claimed amount, goes through verification and inserts exactly
\* one fund holding that transactionId and the claimed amount; a submission
\* of the same transactionId made afterwards is answered 409.
C4_ExactAmountRecorded ==
    [][\A p \in Procs :
          /\ Leaves(p, "funds_find")
             => IF Stored(h[p].body.transactionId)
                THEN res'[p].code = 409 /\ h'[p].pc = "idle"
                ELSE h'[p].pc = "funds_verify" /\ h'[p].body = h[p].body
          /\ (Leaves(p, "funds_verify") /\ ExactlyPaid(h[p].body))
             => h'[p].pc = "funds_insert" /\ h'[p].body = h[p].body
          /\ Leaves(p, "funds_insert")
             => /\ Len(funds') = Len(funds) + 1
                /\ SubSeq(funds', 1, Len(funds)) = funds
                /\ funds'[Len(funds')].transactionId = h[p].body.transactionId
                /\ funds'[Len(funds')].amount = h[p].body.amount
                /\ res'[p].code = 200]_vars

C4_Witness ==
    /\ Len(funds) = 1
    /\ funds[1].transactionId = Tx("cs_", 1)
    /\ funds[1].amount = Num(500000)
    /\ ProviderAmount(Tx("cs_", 1)) = 50000
    /\ \E p \in Procs : res[p].code = 409

\* C5: the email stored on a fund is the email of the token that submitted
\* it, so two submissions by one identity that differ only in the body's
\* email field store the same email.
C5_EmailFromIdentity ==
    /\ Len(fundReq) = Len(funds)
    /\ \A i \in 1..Len(funds) : funds[i].email = fundReq[i].decoded.email
    /\ \A i, j \in 1..Len(funds) :
          (/\ fundReq[i].decoded = fundReq[j].decoded
           /\ Delete(fundReq[i].body, "email") = Delete(fundReq[j].body, "email"))
          => funds[i].email = funds[j].email

C5_Witness ==
    \E i \in 1..Len(funds) :
        /\ Has(fundReq[i].body, "email")
        /\ fundReq[i].body.email # fundReq[i].decoded.email
        /\ funds[i].email = fundReq[i].decoded.email

(* ----------------------- users and requests: claims -------------------- *)

Registered(e) == \E i \in 1..Len(users) : users[i].email = e

\* every stored document of the identity e carries a role in rs
RoleIn(e, rs) == \A i \in 1..Len(users) : users[i].email = e => users[i].role \in rs

\* the collection after the step is the one before plus one document
Grows(coll, collAfter) ==
    Len(collAfter) = Len(coll) + 1 /\ SubSeq(collAfter, 1, Len(coll)) = coll

\* C6: POST /users with an email no stored user has goes on to insert exactly
\* one user with that email, role donor and status active, whatever role or
\* status the body carries; with an email some stored user has it inserts
\* and changes nothing and answers "User already exists".
C6_RegisterOnce ==
    [][\A p \in Procs :
          /\ Leaves(p, "users_find")
             => /\ users' = users
                /\ IF Registered(h[p].body.email)
                   THEN res'[p] = Reply(200, "User already exists") /\ h'[p].pc = "idle"
                   ELSE h'[p].pc = "users_insert" /\ h'[p].body = h[p].body
          /\ Leaves(p, "users_insert")
             => /\ Grows(users, users')
                /\ users'[Len(users')].email = h[p].body.email
                /\ users'[Len(users')].role = "donor"
                /\ users'[Len(users')].status = "active"
                /\ res'[p].code = 201]_vars

C6_Witness ==
    /\ \E i \in 1..Len(users) :
          /\ users[i].name = "root"
          /\ users[i].email = "new"
          /\ users[i].role = "donor"
          /\ users[i].status = "active"
    /\ \E p \in Procs : res[p] = Reply(200, "User already exists")

UserBlocked == Reply(403, "User blocked")

\* C7: POST /donation-requests by a caller whose stored status is blocked is
\* answered 403 "User blocked" and leaves the request store as it was.
C7_BlockedRejected ==
    [][\A p \in Procs :
          (/\ Leaves(p, "create_user")
           /\ Registered(h[p].decoded.email)
           /\ \A i \in 1..Len(users) :
                 users[i].email = h[p].decoded.email => users[i].status = "blocked")
          => /\ res'[p] = UserBlocked
             /\ h'[p].pc = "idle"
             /\ requests' = requests]_vars

C7_Witness ==
    /\ \E p \in Procs : res[p] = UserBlocked
    /\ requests = SeedRequests

GuardThen(pc) ==
    CASE pc = "list_guard" -> "list_count"
      [] pc = "role_guard" -> "role_update"
      [] pc = "status_guard" -> "status_update"

\* C8: GET /users, PATCH /users/role/:id and PATCH /users/status/:id get past
\* the role guard only for a caller whose stored role is admin: a donor or a
\* volunteer is answered 403 "Access denied" and no user changes; for an
\* admin the list is sent, or the role or status of the addressed user is
\* set to the value sent and no other field or user changes.
C8_AdminOnly ==
    [][\A p \in Procs :
          /\ \A g \in {"list_guard", "role_guard", "status_guard"} :
                Leaves(p, g)
                => /\ users' = users
                   /\ RoleIn(h[p].decoded.email, {"donor", "volunteer"})
                      => res'[p] = AccessDenied /\ h'[p].pc = "idle"
                   /\ (Registered(h[p].decoded.email) /\ RoleIn(h[p].decoded.email, {"admin"}))
                      => h'[p].pc = GuardThen(g)
          /\ Leaves(p, "list_count") => users' = users /\ h'[p].pc = "list_find"
          /\ Leaves(p, "list_find")
             => users' = users /\ res'[p].code = 200 /\ res'[p].msg = "list"
          /\ Leaves(p, "role_update")
             => /\ res'[p].code = 200
                /\ users' = IF h[p].id \in 1..Len(users)
                            THEN [users EXCEPT ![h[p].id].role = h[p].body.role]
                            ELSE users
          /\ Leaves(p, "status_update")
             => /\ res'[p].code = 200
                /\ users' = IF h[p].id \in 1..Len(users)
                            THEN [users EXCEPT ![h[p].id].status = h[p].body.status]
                            ELSE users]_vars

\* the seeded admin was demoted by an admin and then denied
C8_Witness ==
    /\ users[1].email = "adm" /\ users[1].role = "donor"
    /\ \E p \in Procs : res[p] = AccessDenied

\* C9: PUT /users/profile leaves the email, role and status of the caller
\* as they were, and every other user untouched.
C9_ProfileKeepsRole ==
    [][\A p \in Procs :
          Leaves(p, "profile_update")
          => /\ Len(users') = Len(users)
             /\ \A i \in 1..Len(users) :
                   IF users[i].email = h[p].decoded.email
                   THEN /\ users'[i].email = users[i].email
                        /\ users'[i].role = users[i].role
                        /\ users'[i].status = users[i].status
                   ELSE users'[i] = users[i]]_vars

\* C10: PUT /donation-requests/:id by a caller who is neither the owner of
\* the request nor an admin is answered 403 and leaves the request as it was.
C10_OwnerOrAdminUpdates ==
    [][\A p \in Procs :
          (/\ Leaves(p, "update_set")
           /\ Exists(requests, h[p].id)
           /\ requests[h[p].id].requesterEmail # h[p].decoded.email
           /\ RoleIn(h[p].decoded.email, {"donor", "volunteer"}))
          => requests' = requests /\ res'[p].code = 403]_vars

\* the caller's identity owns the stored request id
Owns(decoded, id) == requests[id].requesterEmail = decoded.email

\* C11: DELETE /donation-requests/:id by an authenticated caller who is
\* neither the owner of the request nor an admin is answered 403 and leaves
\* the request in the store.
C11_OwnerOrAdminDeletes ==
    [][\A p \in Procs :
          (/\ Leaves(p, "delete_one")
           /\ Exists(requests, h[p].id)
           /\ ~Owns(h[p].decoded, h[p].id)
           /\ RoleIn(h[p].decoded.email, {"donor", "volunteer"}))
          => requests' = requests /\ res'[p].code = 403]_vars

\* a request arrives on connection p with a credential of this kind
Arrives(p, kind) == nreq' = nreq + 1 /\ lastAuth'.conn = p /\ lastAuth'.kind = kind

\* the step starts no handler on connection p and changes no stored record
Rejected(p) ==
    /\ h'[p].pc = "idle"
    /\ users' = users /\ requests' = requests /\ funds' = funds

C18_VerifiedOrUnavailable ==
    [][\A p \in Procs :
          (Leaves(p, "jwt_find") /\ res'[p] = Reply(200, "token"))
          => /\ Registered(h[p].email)
             /\ (Has(h[p].body, "token") /\ adminApps > 0) => h[p].body.token.valid]_vars

(* ------------------- donation request lifecycle: claims ---------------- *)

Forbidden == Reply(403, "Forbidden")

\* C12: PATCH /donation-requests/status/:id goes on to change the status
\* exactly when the caller owns the request or has the stored role admin or
\* volunteer; any other caller is answered 403 "Forbidden" and the requests
\* stay as they were; the change that follows sets the status sent and
\* nothing else.
C12_OwnerOrStaffChangesStatus ==
    [][\A p \in Procs :
          /\ Leaves(p, "rstatus_user")
             => /\ requests' = requests
                /\ IF \/ Owns(h[p].decoded, h[p].id)
                      \/ ~RoleIn(h[p].decoded.email, {"donor"})
                   THEN h'[p].pc = "rstatus_set"
                   ELSE h'[p].pc = "idle" /\ res'[p] = Forbidden
          /\ (Leaves(p, "rstatus_set") /\ Exists(requests, h[p].id))
             => /\ requests'[h[p].id].status = h[p].status
                /\ Delete(requests'[h[p].id], "status") = Delete(requests[h[p].id], "status")
                /\ \A i \in 1..Len(requests) : i # h[p].id => requests'[i] = requests[i]
                /\ Len(requests') = Len(requests)]_vars

\* a donor was refused on the request of the volunteer, whose status was then
\* changed by a caller let through
C12_Witness ==
    \E p, q \in Procs :
        /\ Len(requests) = 2
        /\ requests[2].requesterEmail = "vol" /\ requests[2].status = "done"
        /\ res[p] = Forbidden
        /\ res[q].msg = "status" /\ res[q].modifiedCount = 1

\* C13: the request inserted by POST /donation-requests has status pending
\* and the caller's email as requesterEmail whatever the body holds; the
\* donate action leaves the request inprogress with the donor's email as
\* donorEmail; a status change then sets the status sent and leaves
\* donorName and donorEmail as they were.
C13_Lifecycle ==
    [][\A p \in Procs :
          /\ Leaves(p, "create_insert")
             => /\ Grows(requests, requests')
                /\ requests'[Len(requests')].status = "pending"
                /\ requests'[Len(requests')].requesterEmail = h[p].decoded.email
          /\ (Leaves(p, "donate_set") /\ Exists(requests, h[p].id))
             => /\ requests'[h[p].id].status = "inprogress"
                /\ requests'[h[p].id].donorEmail = h[p].decoded.email
          /\ (Leaves(p, "rstatus_set") /\ Exists(requests, h[p].id))
             => /\ requests'[h[p].id].status = h[p].status
                /\ Get(requests'[h[p].id], "donorName") = Get(requests[h[p].id], "donorName")
                /\ Get(requests'[h[p].id], "donorEmail") = Get(requests[h[p].id], "donorEmail")
         ]_vars

\* the request created by the donor with a body naming another requester and
\* status done was claimed by the volunteer and then set to done
C13_Witness ==
    /\ nreq = 3
    /\ Len(requests) = 2
    /\ requests[2].requesterEmail = "don"
    /\ requests[2].status = "done"
    /\ Get(requests[2], "donorEmail") = "vol" /\ Get(requests[2], "donorName") = "vol"
    /\ \E p \in Procs : lastAuth.conn = p /\ res[p].msg = "status" /\ res[p].modifiedCount = 1

\* donorName and donorEmail of the stored request i, none when it is not stored
DonorOf(coll, i) ==
    IF i \in 1..Len(coll)
    THEN <<Get(coll[i], "donorName"), Get(coll[i], "donorEmail")>>
    ELSE <<Undefined, Undefined>>

\* C14: the donor fields of a request are set or altered only by the step of
\* a donate action on that request, which leaves it inprogress.
C14_DonorOnlyByDonate ==
    [][\A i \in 1..Len(requests') :
          DonorOf(requests', i) # DonorOf(requests, i)
          => /\ \E p \in Procs : Leaves(p, "donate_set") /\ h[p].id = i
             /\ requests'[i].status = "inprogress"]_vars

RequestStatuses == {"pending", "inprogress", "done", "canceled"}

\* C15: every stored donation request has a status among pending,
\* inprogress, done and canceled.
C15_StatusInEnum ==
    \A i \in 1..Len(requests) : Exists(requests, i) => requests[i].status \in RequestStatuses

\* C19: a donate action applied to a stored request reports a match and
\* leaves the request inprogress with donorName and donorEmail both of the
\* caller, whatever the status and donor before and whichever other donate
\* action is in flight, which stays in flight to be applied in turn.
C19_LastDonateWins ==
    [][\A p \in Procs :
          (Leaves(p, "donate_set") /\ Exists(requests, h[p].id))
          => /\ res'[p].code = 200 /\ res'[p].matchedCount = 1
             /\ requests'[h[p].id].status = "inprogress"
             /\ DonorOf(requests', h[p].id) = <<h[p].decoded.name, h[p].decoded.email>>
             /\ \A q \in Procs \ {p} : h[q].pc = "donate_set" => h'[q] = h[q]]_vars

\* two donate actions on the seeded request, each reporting a modification,
\* left it inprogress with the volunteer as donor
C19_Witness ==
    /\ nreq = 2
    /\ \A p \in Procs : h[p].pc = "idle" /\ res[p].msg = "donated" /\ res[p].modifiedCount = 1
    /\ requests[1].status = "inprogress"
    /\ DonorOf(requests, 1) = <<"vol", "vol">>

\* C20: PUT or DELETE /donation-requests/:id addressed to an id no stored
\* request has is answered 404 or 500 and leaves the requests as they were.
C20_MissingIdIsAnError ==
    [][\A p \in Procs :
          ((Leaves(p, "update_set") \/ Leaves(p, "delete_one")) /\ ~Exists(requests, h[p].id))
          => res'[p].code \in {404, 500} /\ requests' = requests]_vars

(* ------------------------------ lists: claims -------------------------- *)

\* the documents a list handler about to answer on connection p selects
Selected(p) ==
    CASE h[p].pc = "list_find" -> Filtered(users, h[p].query)
      [] h[p].pc = "rlist_find" -> Filtered(requests, h[p].query)
      [] h[p].pc = "my_find" -> FilteredMy(requests, h[p].query, h[p].decoded)

\* C16: GET /users, GET /donation-requests and GET /donation-requests/my
\* answer, over the n documents their filter selects, with a page of
\* min(l, max(0, n - (p - 1) * l)) documents and with total = n, page p and
\* limit l being 1 and 10 when the query does not give them.
C16_PageAndTotal ==
    [][\A p \in Procs :
          (Leaves(p, "list_find") \/ Leaves(p, "rlist_find") \/ Leaves(p, "my_find"))
          => LET n == Cardinality(Selected(p))
                 page == IF Has(h[p].query, "page") THEN h[p].query.page ELSE 1
                 limit == IF Has(h[p].query, "limit") THEN h[p].query.limit ELSE 10
                 rest == n - (page - 1) * limit
             IN  /\ res'[p].code = 200
                 /\ res'[p].n = (IF rest < 0 THEN 0 ELSE IF rest < limit THEN rest ELSE limit)
                 /\ Has(res'[p], "total")
                 /\ res'[p].total = n]_vars

(* --------------------------- user store: claims ------------------------ *)

\* C22: the user store holds at most one user per email.
C22_OneUserPerEmail ==
    \A i, j \in 1..Len(users) : users[i].email = users[j].email => i = j

\* the roles each guarded route asks for
GuardRoles(g) ==
    CASE g = "list_guard" -> {"admin"}
      [] g = "role_guard" -> {"admin"}
      [] g = "rlist_guard" -> {"admin", "volunteer"}

\* the role stored now for the email e
StoredRole(e) == users[CHOOSE i \in 1..Len(users) : users[i].email = e].role

\* C21: the guard of an admin-only or admin/volunteer-only route lets a
\* request through exactly when the role stored for the caller at that moment
\* is one the route asks for, whatever role the caller had when the token
\* was signed: the token of a user since demoted to donor is answered 403
\* "Access denied", the token of a user since promoted goes on to the handler.
C21_GuardReadsStoredRole ==
    [][\A p \in Procs : \A g \in {"list_guard", "role_guard", "rlist_guard"} :
          Leaves(p, g)
          => /\ h[p].decoded \in tokens
             /\ users' = users
             /\ IF StoredRole(h[p].decoded.email) \in GuardRoles(g)
                THEN h'[p].pc \notin {"idle", g} /\ res'[p] = NoReply
                ELSE h'[p].pc = "idle" /\ res'[p] = AccessDenied]_vars

\* the donor was promoted to admin and the seeded admin demoted to donor; the
\* last request, made with the token the demoted admin held from the start,
\* was denied
C21_Witness ==
    /\ nreq = 3
    /\ users[1].email = "adm" /\ users[1].role = "donor"
    /\ users[3].email = "don" /\ users[3].role = "admin"
    /\ lastAuth.kind = "jwt" /\ lastAuth.email = "adm"
    /\ \E p \in Procs : lastAuth.conn = p /\ h[p].pc = "idle" /\ res[p] = AccessDenied

====
